---- MODULE Spec2Model ----
(***************************************************************************)
(* Model of generate_language_data.py: the scan of the two candidate       *)
(* language roots, the construction of one record per language directory,  *)
(* the keyword-based feature extraction, the completeness score, and the   *)
(* final sort and save performed by main.                                  *)
(*                                                                         *)
(* Text is modelled as a sequence of code points, so that lower(),         *)
(* substring search and string comparison are computed, not assumed.       *)
(* metadata.json follows the documented interface: when it is a JSON       *)
(* object and has the key created_at, the value is a string.               *)
(***************************************************************************)
EXTENDS Integers, Sequences, FiniteSets, TLC

VARIABLES pc, dir_exists, web_dir, root_idx, scanned, languages,
          output_data, output_file, lang_folder, lang_data, features

vars ==
    <<pc, dir_exists, web_dir, root_idx, scanned, languages,
      output_data, output_file, lang_folder, lang_data, features>>

(***************************************************************************)
(* Bounds                                                                  *)
(***************************************************************************)
\* directory entries enumerated in one run, over both roots
MaxChildren ==
    3
\* fragments concatenated to build the text of a grammar file
MaxFrag ==
    2

(***************************************************************************)
(* String constants of the program, as code points                         *)
(***************************************************************************)
\* "vso"
KW_vso ==
    <<118,115,111>>
\* "verb-subject-object"
KW_verb_subject_object ==
    <<118,101,114,98,45,115,117,98,106,101,99,116,45,111,98,106,101,99,116>>
\* "sov"
KW_sov ==
    <<115,111,118>>
\* "subject-object-verb"
KW_subject_object_verb ==
    <<115,117,98,106,101,99,116,45,111,98,106,101,99,116,45,118,101,114,98>>
\* "svo"
KW_svo ==
    <<115,118,111>>
\* "subject-verb-object"
KW_subject_verb_object ==
    <<115,117,98,106,101,99,116,45,118,101,114,98,45,111,98,106,101,99,116>>
\* "active-stative"
KW_active_stative ==
    <<97,99,116,105,118,101,45,115,116,97,116,105,118,101>>
\* "ergative"
KW_ergative ==
    <<101,114,103,97,116,105,118,101>>
\* "nominative"
KW_nominative ==
    <<110,111,109,105,110,97,116,105,118,101>>
\* "vowel harmony"
KW_vowel_harmony ==
    <<118,111,119,101,108,32,104,97,114,109,111,110,121>>
\* "agglutinative"
KW_agglutinative ==
    <<97,103,103,108,117,116,105,110,97,116,105,118,101>>
\* "analytic"
KW_analytic ==
    <<97,110,97,108,121,116,105,99>>
\* "ejective"
KW_ejective ==
    <<101,106,101,99,116,105,118,101>>
\* "prenasalized"
KW_prenasalized ==
    <<112,114,101,110,97,115,97,108,105,122,101,100>>
\* "tone"
KW_tone ==
    <<116,111,110,101>>
\* "2025-08-06 12:00:00"
DefaultCreatedAt ==
    <<50,48,50,53,45,48,56,45,48,54,32,49,50,58,48,48,58,48,48>>
\* "2025-08-07 09:30:00"
TS_later ==
    <<50,48,50,53,45,48,56,45,48,55,32,48,57,58,51,48,58,48,48>>
\* "2025-08-06"
TS_short ==
    <<50,48,50,53,45,48,56,45,48,54>>
\* "9"
TS_nine ==
    <<57>>
\* "The language exhibits SVO word order and is agglutinative."
G_scenario ==
    <<84,104,101,32,108,97,110,103,117,97,103,101,32,101,120,104,105,98,105,116,115,32,83,86,79,32,119,111,114,100,32,111,114,100,101,114,32,97,110,100,32,105,115,32,97,103,103,108,117,116,105,110,97,116,105,118,101,46>>
\* "Ergative, not nominative, with Vowel Harmony. "
G_align_harmony ==
    <<69,114,103,97,116,105,118,101,44,32,110,111,116,32,110,111,109,105,110,97,116,105,118,101,44,32,119,105,116,104,32,86,111,119,101,108,32,72,97,114,109,111,110,121,46,32>>
\* "VSO "
G_VSO ==
    <<86,83,79,32>>
\* "Subject-Object-Verb, Analytic "
G_sov_long ==
    <<83,117,98,106,101,99,116,45,79,98,106,101,99,116,45,86,101,114,98,44,32,65,110,97,108,121,116,105,99,32>>
\* "subject-verb-object, NOMINATIVE-accusative "
G_svo_long ==
    <<115,117,98,106,101,99,116,45,118,101,114,98,45,111,98,106,101,99,116,44,32,78,79,77,73,78,65,84,73,86,69,45,97,99,99,117,115,97,116,105,118,101,32>>
\* "Verb-Subject-Object, Active-Stative "
G_vso_long ==
    <<86,101,114,98,45,83,117,98,106,101,99,116,45,79,98,106,101,99,116,44,32,65,99,116,105,118,101,45,83,116,97,116,105,118,101,32>>
\* "Sov "
G_SOV ==
    <<83,111,118,32>>
\* "isolating roots "
G_plain ==
    <<105,115,111,108,97,116,105,110,103,32,114,111,111,116,115,32>>
\* "has tone and ejective series"
P_scenario ==
    <<104,97,115,32,116,111,110,101,32,97,110,100,32,101,106,101,99,116,105,118,101,32,115,101,114,105,101,115>>
\* "Prenasalized stops "
P_prenasal ==
    <<80,114,101,110,97,115,97,108,105,122,101,100,32,115,116,111,112,115,32>>
\* "Ejective "
P_ejective ==
    <<69,106,101,99,116,105,118,101,32>>
\* "Tone is contrastive "
P_tone ==
    <<84,111,110,101,32,105,115,32,99,111,110,116,114,97,115,116,105,118,101,32>>
\* "five vowels "
P_plain ==
    <<102,105,118,101,32,118,111,119,101,108,115,32>>

(***************************************************************************)
(* Python built-ins used by the program                                    *)
(***************************************************************************)
Min(a, b) ==
    IF a <= b THEN a ELSE b

\* str.lower() on ASCII text
Lower(text) ==
    [i \in 1..Len(text) |-> IF text[i] \in 65..90 THEN text[i] + 32 ELSE text[i]]

\* keyword in text
Contains(text, keyword) ==
    \E i \in 1..(Len(text) - Len(keyword) + 1) :
        \A j \in 1..Len(keyword) : text[i + j - 1] = keyword[j]

\* a < b on str: lexicographic by code point, a proper prefix is smaller
StrLess(a, b) ==
    \E i \in 1..(Min(Len(a), Len(b)) + 1) :
        /\ \A j \in 1..(i - 1) : a[j] = b[j]
        /\ \/ i > Len(a) /\ i <= Len(b)
           \/ i <= Len(a) /\ i <= Len(b) /\ a[i] < b[i]

\* sum() of a list of bools
BoolSum(flags) ==
    Cardinality({i \in 1..Len(flags) : flags[i]})

\* the position a record takes when list.sort(key=created_at, reverse=True)
\* merges it into an already sorted prefix: behind every record whose key is
\* greater or equal, so records with equal keys keep their order
\* variant: a sort that puts a record before the records with an equal key
InsertDescMutUnstable(sorted, rec) ==
    LET before == {i \in 1..Len(sorted) : StrLess(rec.created_at, sorted[i].created_at)}
        n == Cardinality(before)
    IN  SubSeq(sorted, 1, n) \o <<rec>> \o SubSeq(sorted, n + 1, Len(sorted))

InsertDesc(sorted, rec) ==
    LET before == {i \in 1..Len(sorted) : ~StrLess(sorted[i].created_at, rec.created_at)}
        n == Cardinality(before)
    IN  SubSeq(sorted, 1, n) \o <<rec>> \o SubSeq(sorted, n + 1, Len(sorted))

RECURSIVE SortDesc(_)
\* languages.sort(key=lambda x: x["created_at"], reverse=True)
SortDesc(list) ==
    IF list = <<>> THEN <<>>
    ELSE InsertDesc(SortDesc(SubSeq(list, 1, Len(list) - 1)), list[Len(list)])

(***************************************************************************)
(* Files and directories                                                   *)
(***************************************************************************)
AbsentFile ==
    [kind |-> "absent", text |-> <<>>]

\* the file exists but open() or read() raises
UnreadableFile ==
    [kind |-> "unreadable", text |-> <<>>]

TextFile(t) ==
    [kind |-> "text", text |-> t]

Exists(file) ==
    file.kind # "absent"

\* metadata.json: absent, unreadable, not JSON, JSON but not an object
\* (e.g. an array), or a JSON object with or without the key created_at
NoMetadata ==
    [kind |-> "absent", has_created_at |-> FALSE, created_at |-> <<>>]

UnreadableMetadata ==
    [kind |-> "unreadable", has_created_at |-> FALSE, created_at |-> <<>>]

MalformedMetadata ==
    [kind |-> "malformed", has_created_at |-> FALSE, created_at |-> <<>>]

ArrayMetadata ==
    [kind |-> "non_object", has_created_at |-> FALSE, created_at |-> <<>>]

EmptyObjectMetadata ==
    [kind |-> "object", has_created_at |-> FALSE, created_at |-> <<>>]

ObjectMetadata(ts) ==
    [kind |-> "object", has_created_at |-> TRUE, created_at |-> ts]

(***************************************************************************)
(* extract_features                                                        *)
(***************************************************************************)
\* variant: the word-order checks made in the reverse priority
WordOrderLabelMutPriority(grammar_text) ==
    IF Contains(grammar_text, KW_svo) \/ Contains(grammar_text, KW_subject_verb_object)
    THEN <<"SVO Word Order">>
    ELSE IF Contains(grammar_text, KW_sov) \/ Contains(grammar_text, KW_subject_object_verb)
    THEN <<"SOV Word Order">>
    ELSE IF Contains(grammar_text, KW_vso) \/ Contains(grammar_text, KW_verb_subject_object)
    THEN <<"VSO Word Order">>
    ELSE <<>>

WordOrderLabel(grammar_text) ==
    IF Contains(grammar_text, KW_vso) \/ Contains(grammar_text, KW_verb_subject_object)
    THEN <<"VSO Word Order">>
    ELSE IF Contains(grammar_text, KW_sov) \/ Contains(grammar_text, KW_subject_object_verb)
    THEN <<"SOV Word Order">>
    ELSE IF Contains(grammar_text, KW_svo) \/ Contains(grammar_text, KW_subject_verb_object)
    THEN <<"SVO Word Order">>
    ELSE <<>>

AlignmentLabel(grammar_text) ==
    IF Contains(grammar_text, KW_active_stative) THEN <<"Active-Stative Alignment">>
    ELSE IF Contains(grammar_text, KW_ergative) THEN <<"Ergative-Absolutive">>
    ELSE IF Contains(grammar_text, KW_nominative) THEN <<"Nominative-Accusative">>
    ELSE <<>>

HarmonyLabel(grammar_text) ==
    IF Contains(grammar_text, KW_vowel_harmony) THEN <<"Vowel Harmony">> ELSE <<>>

MorphologyLabel(grammar_text) ==
    IF Contains(grammar_text, KW_agglutinative) THEN <<"Agglutinative">>
    ELSE IF Contains(grammar_text, KW_analytic) THEN <<"Analytic">>
    ELSE <<>>

\* variant: the morphological-type check made before the vowel-harmony check
GrammarLabelsMutOrder(grammar_text) ==
    WordOrderLabel(grammar_text) \o AlignmentLabel(grammar_text)
        \o MorphologyLabel(grammar_text) \o HarmonyLabel(grammar_text)

\* the labels appended while the grammar file is open
GrammarLabels(grammar_text) ==
    WordOrderLabel(grammar_text) \o AlignmentLabel(grammar_text)
        \o HarmonyLabel(grammar_text) \o MorphologyLabel(grammar_text)

\* the labels appended while the phonology file is open
PhonologyLabels(phon_text) ==
    (IF Contains(phon_text, KW_ejective) THEN <<"Ejective Consonants">> ELSE <<>>)
        \o (IF Contains(phon_text, KW_prenasalized) THEN <<"Prenasalized Stops">> ELSE <<>>)
        \o (IF Contains(phon_text, KW_tone) THEN <<"Tonal System">> ELSE <<>>)

DefaultFeatures ==
    <<"Complex Morphology", "Rich Phonology", "Unique Typology">>

FeatureLimit ==
    6

\* variant: a cut one entry too late
LimitFeaturesMutSeven(found) ==
    SubSeq(found, 1, Min(FeatureLimit + 1, Len(found)))

\* features[:6]
LimitFeatures(found) ==
    SubSeq(found, 1, Min(FeatureLimit, Len(found)))

\* a file that is absent, or whose open()/read() raises, appends nothing
extract_features(folder) ==
    LET grammar_text == Lower(folder.grammar.text)
        phon_text == Lower(folder.phonology.text)
        from_grammar ==
            IF folder.grammar.kind = "text" THEN GrammarLabels(grammar_text) ELSE <<>>
        from_phonology ==
            IF folder.phonology.kind = "text" THEN PhonologyLabels(phon_text) ELSE <<>>
        found == from_grammar \o from_phonology
    IN  LimitFeatures(IF found = <<>> THEN DefaultFeatures ELSE found)

(***************************************************************************)
(* calculate_completeness and process_language                             *)
(***************************************************************************)
\* variant: three components taken as the total
calculate_completenessMutThree(has_phonology, has_grammar, has_lexicon, has_translations) ==
    LET total_components == 3
        available_components ==
            BoolSum(<<has_phonology, has_grammar, has_lexicon, has_translations>>)
    IN  (available_components * 100) \div total_components

\* int((available / 4) * 100): available/4 is a multiple of 0.25, exact in
\* binary floating point, so the result is the integer quotient
calculate_completeness(has_phonology, has_grammar, has_lexicon, has_translations) ==
    LET total_components == 4
        available_components ==
            BoolSum(<<has_phonology, has_grammar, has_lexicon, has_translations>>)
    IN  (available_components * 100) \div total_components

\* the value process_language returns from its except branch
None ==
    [none |-> TRUE]

\* json.load raises on text that is not JSON, open() raises on an unreadable
\* file, and metadata.get raises when the document is not an object
\* variant: text that is not JSON read as an empty document
MetadataRaisesMutLenient(metadata) ==
    metadata.kind \in {"unreadable", "non_object"}

MetadataRaises(metadata) ==
    metadata.kind \in {"unreadable", "malformed", "non_object"}

process_language(folder) ==
    IF MetadataRaises(folder.metadata) THEN None
    ELSE
        LET has_html == folder.html
            has_phonology == Exists(folder.phonology)
            has_grammar == Exists(folder.grammar)
            has_lexicon == folder.lexicon
            has_translations == folder.translation
        IN  [id |-> folder.name,
             created_at |-> IF folder.metadata.has_created_at
                            THEN folder.metadata.created_at
                            ELSE DefaultCreatedAt,
             has_html |-> has_html,
             has_phonology |-> has_phonology,
             has_grammar |-> has_grammar,
             has_lexicon |-> has_lexicon,
             has_translations |-> has_translations,
             features |-> extract_features(folder),
             completeness |-> calculate_completeness(has_phonology, has_grammar,
                                                     has_lexicon, has_translations)]

(***************************************************************************)
(* scan_languages and main                                                 *)
(***************************************************************************)
OutputRoot ==
    "output/languages/languages"

LanguagesRoot ==
    "languages/languages"

\* variant: the two roots scanned in the other order
lang_pathsMutSwapped ==
    <<LanguagesRoot, OutputRoot>>

\* the candidate roots, in the order they are scanned
lang_paths ==
    <<OutputRoot, LanguagesRoot>>

IdLength ==
    8

\* variant: names longer than 8 characters accepted as well
is_language_dirMutAtLeast(path) ==
    path.is_dir /\ Len(path.name) >= IdLength

\* lang_folder.is_dir() and len(lang_folder.name) == 8
is_language_dir(path) ==
    path.is_dir /\ Len(path.name) = IdLength

\* if lang_data: languages.append(lang_data)
Collect(list, data) ==
    IF data # None THEN Append(list, data) ELSE list

GeneratedAt ==
    "2025-08-06T12:00:00Z"

build_output(list) ==
    [languages |-> list, total_count |-> Len(list), generated_at |-> GeneratedAt]

(***************************************************************************)
(* Inputs                                                                  *)
(***************************************************************************)
Folder(name, is_dir, metadata, html, phonology, grammar, lexicon, translation) ==
    [name |-> name, is_dir |-> is_dir, metadata |-> metadata, html |-> html,
     phonology |-> phonology, grammar |-> grammar, lexicon |-> lexicon,
     translation |-> translation]

RECURSIVE TextsOf(_, _)
\* every concatenation of at most n fragments
TextsOf(frags, n) ==
    IF n = 0 THEN {<<>>}
    ELSE LET shorter == TextsOf(frags, n - 1)
         IN  shorter \cup {t \o f : t \in shorter, f \in frags}

GrammarFragments ==
    {G_scenario, G_align_harmony, G_VSO, G_SOV, G_sov_long, G_svo_long, G_vso_long,
     G_plain}

\* one text for every combination of the three phonology keywords, and one
\* without any
PhonologyTexts ==
    {<<>>, P_plain, P_ejective, P_prenasal, P_tone, P_scenario, P_ejective \o P_prenasal,
     P_prenasal \o P_tone, P_prenasal \o P_scenario}

GrammarFiles ==
    {AbsentFile, UnreadableFile} \cup {TextFile(t) : t \in TextsOf(GrammarFragments, MaxFrag)}

PhonologyFiles ==
    {AbsentFile, UnreadableFile} \cup {TextFile(t) : t \in PhonologyTexts}

\* 8-character names; nothing restricts the characters
LangIds ==
    {"a1b2c3d4", "Zz_-.9 !"}

\* names of 7 and of 9 characters
OtherNames ==
    {"a1b2c3d", "a1b2c3d4e"}

Metadatas ==
    {NoMetadata, UnreadableMetadata, MalformedMetadata, ArrayMetadata, EmptyObjectMetadata,
     ObjectMetadata(DefaultCreatedAt), ObjectMetadata(TS_later), ObjectMetadata(TS_short),
     ObjectMetadata(TS_nine)}

\* inputs of extract_features: every grammar file with every phonology file
FeatureFolders ==
    {Folder("a1b2c3d4", TRUE, NoMetadata, FALSE, p, g, FALSE, FALSE) :
        p \in PhonologyFiles, g \in GrammarFiles}

\* inputs of process_language: every metadata.json with every combination of
\* the five artifact files
RecordFolders ==
    {Folder("a1b2c3d4", TRUE, m, h, p, g, l, t) :
        m \in Metadatas, h \in BOOLEAN, l \in BOOLEAN, t \in BOOLEAN,
        p \in {AbsentFile, UnreadableFile, TextFile(P_scenario), TextFile(P_plain)},
        g \in {AbsentFile, UnreadableFile, TextFile(G_scenario), TextFile(G_plain)}}

FullFolder(name, is_dir, metadata) ==
    Folder(name, is_dir, metadata, TRUE, TextFile(P_ejective), TextFile(G_VSO), TRUE, TRUE)

EmptyFolder(name, is_dir, metadata) ==
    Folder(name, is_dir, metadata, FALSE, AbsentFile, AbsentFile, FALSE, FALSE)

\* children a root can hold: language directories, directories whose name has
\* another length, and a plain file with an 8-character name
RunEntries ==
    {FullFolder(n, TRUE, m) : n \in LangIds,
        m \in {MalformedMetadata, ObjectMetadata(DefaultCreatedAt), ObjectMetadata(TS_nine)}}
    \cup {EmptyFolder(n, TRUE, m) : n \in LangIds, m \in {NoMetadata, ObjectMetadata(TS_short)}}
    \cup {FullFolder(n, TRUE, ObjectMetadata(TS_later)) : n \in OtherNames}
    \cup {EmptyFolder("a1b2c3d4", FALSE, NoMetadata)}

NoFolder ==
    [none |-> TRUE]

(***************************************************************************)
(* The run of main                                                         *)
(***************************************************************************)
Init ==
    /\ pc = "check_root"
    /\ dir_exists \in [{OutputRoot, LanguagesRoot} -> BOOLEAN]
    /\ web_dir \in {"absent", "web", "web_data"}
    /\ root_idx = 1
    /\ scanned = <<>>
    /\ languages = <<>>
    /\ output_data = None
    /\ output_file = None
    /\ lang_folder = NoFolder
    /\ lang_data = None
    /\ features = <<>>

\* the for loop over lang_paths moves to the next root, or scan_languages returns
NextRoot ==
    /\ root_idx' = root_idx + 1
    /\ pc' = IF root_idx = Len(lang_paths) THEN "sort" ELSE "check_root"

\* if lang_dir.exists(): false
RootMissing ==
    /\ pc = "check_root"
    /\ ~dir_exists[lang_paths[root_idx]]
    /\ NextRoot
    /\ UNCHANGED <<dir_exists, web_dir, scanned, languages, output_data, output_file,
                   lang_folder, lang_data, features>>

\* if lang_dir.exists(): true
RootFound ==
    /\ pc = "check_root"
    /\ dir_exists[lang_paths[root_idx]]
    /\ pc' = "iterdir"
    /\ UNCHANGED <<dir_exists, web_dir, root_idx, scanned, languages, output_data,
                   output_file, lang_folder, lang_data, features>>

\* one iteration of the loop over lang_dir.iterdir(); the names within one
\* directory are distinct
ScanChild ==
    /\ pc = "iterdir"
    /\ Len(scanned) < MaxChildren
    /\ \E child \in RunEntries :
        /\ \A i \in 1..Len(scanned) :
               scanned[i].root = lang_paths[root_idx] => scanned[i].path.name # child.name
        /\ scanned' = Append(scanned, [root |-> lang_paths[root_idx], path |-> child,
                                       processed |-> is_language_dir(child)])
        /\ IF is_language_dir(child)
           THEN /\ lang_folder' = child
                /\ lang_data' = process_language(child)
                /\ languages' = Collect(languages, process_language(child))
           ELSE UNCHANGED <<lang_folder, lang_data, languages>>
    /\ UNCHANGED <<pc, dir_exists, web_dir, root_idx, output_data, output_file, features>>

\* iterdir() is exhausted
ScanDone ==
    /\ pc = "iterdir"
    /\ NextRoot
    /\ UNCHANGED <<dir_exists, web_dir, scanned, languages, output_data, output_file,
                   lang_folder, lang_data, features>>

\* languages.sort(...) and the construction of output_data
SortLanguages ==
    /\ pc = "sort"
    /\ languages' = SortDesc(languages)
    /\ output_data' = build_output(SortDesc(languages))
    /\ pc' = "mkdir"
    /\ UNCHANGED <<dir_exists, web_dir, root_idx, scanned, output_file,
                   lang_folder, lang_data, features>>

\* web_data_dir.mkdir(exist_ok=True) has no parents=True: without web/ it
\* raises FileNotFoundError, which nothing catches
MkdirFails ==
    /\ pc = "mkdir"
    /\ web_dir = "absent"
    /\ pc' = "crashed"
    /\ UNCHANGED <<dir_exists, web_dir, root_idx, scanned, languages, output_data,
                   output_file, lang_folder, lang_data, features>>

\* mkdir succeeds (or web/data is already there) and json.dump writes the file
SaveOutput ==
    /\ pc = "mkdir"
    /\ web_dir # "absent"
    /\ web_dir' = "web_data"
    /\ output_file' = output_data
    /\ pc' = "done"
    /\ UNCHANGED <<dir_exists, root_idx, scanned, languages, output_data,
                   lang_folder, lang_data, features>>

Next ==
    \/ RootMissing
    \/ RootFound
    \/ ScanChild
    \/ ScanDone
    \/ SortLanguages
    \/ MkdirFails
    \/ SaveOutput

Spec ==
    Init /\ [][Next]_vars

(***************************************************************************)
(* process_language applied to one directory                               *)
(***************************************************************************)
InitRecord ==
    /\ pc = "call_process_language"
    /\ lang_folder \in RecordFolders
    /\ lang_data = None
    /\ features = <<>>
    /\ dir_exists = [r \in {OutputRoot, LanguagesRoot} |-> TRUE]
    /\ web_dir = "web_data"
    /\ root_idx = 1
    /\ scanned = <<>>
    /\ languages = <<>>
    /\ output_data = None
    /\ output_file = None

ProcessLanguage ==
    /\ pc = "call_process_language"
    /\ lang_data' = process_language(lang_folder)
    /\ pc' = "returned"
    /\ UNCHANGED <<dir_exists, web_dir, root_idx, scanned, languages, output_data,
                   output_file, lang_folder, features>>

NextRecord ==
    ProcessLanguage

SpecRecord ==
    InitRecord /\ [][NextRecord]_vars

(***************************************************************************)
(* extract_features applied to one directory                               *)
(***************************************************************************)
InitFeatures ==
    /\ pc = "call_extract_features"
    /\ lang_folder \in FeatureFolders
    /\ lang_data = None
    /\ features = <<>>
    /\ dir_exists = [r \in {OutputRoot, LanguagesRoot} |-> TRUE]
    /\ web_dir = "web_data"
    /\ root_idx = 1
    /\ scanned = <<>>
    /\ languages = <<>>
    /\ output_data = None
    /\ output_file = None

ExtractFeatures ==
    /\ pc = "call_extract_features"
    /\ features' = extract_features(lang_folder)
    /\ pc' = "extracted"
    /\ UNCHANGED <<dir_exists, web_dir, root_idx, scanned, languages, output_data,
                   output_file, lang_folder, lang_data>>

NextFeatures ==
    ExtractFeatures

SpecFeatures ==
    InitFeatures /\ [][NextFeatures]_vars

(***************************************************************************)
(* Properties                                                              *)
(***************************************************************************)
Range(s) ==
    {s[i] : i \in 1..Len(s)}

\* the file was read and its text holds the keyword, in any letter case
HasKeyword(file, keyword) ==
    /\ file.kind = "text"
    /\ \E i \in 1..(Len(file.text) - Len(keyword) + 1) :
           \A j \in 1..Len(keyword) :
               LET c == file.text[i + j - 1]
               IN  keyword[j] = IF c >= 65 /\ c <= 90 THEN c + 32 ELSE c

GrammarKeywords ==
    {KW_vso, KW_verb_subject_object, KW_sov, KW_subject_object_verb, KW_svo,
     KW_subject_verb_object, KW_active_stative, KW_ergative, KW_nominative,
     KW_vowel_harmony, KW_agglutinative, KW_analytic}

PhonologyKeywords ==
    {KW_ejective, KW_prenasalized, KW_tone}

NoKeywordDetected(folder) ==
    /\ \A k \in GrammarKeywords : ~HasKeyword(folder.grammar, k)
    /\ \A k \in PhonologyKeywords : ~HasKeyword(folder.phonology, k)

\* the four flags that count, read off the directory itself
ArtifactCount(folder) ==
    BoolSum(<<Exists(folder.phonology), Exists(folder.grammar),
              folder.lexicon, folder.translation>>)

FlagsMatchFiles(rec, folder) ==
    /\ rec.has_html = folder.html
    /\ rec.has_phonology = Exists(folder.phonology)
    /\ rec.has_grammar = Exists(folder.grammar)
    /\ rec.has_lexicon = folder.lexicon
    /\ rec.has_translations = folder.translation

\* C1: every record process_language produces has completeness equal to 25
\* times the number of true flags among has_phonology, has_grammar,
\* has_lexicon and has_translations, whatever has_html and the metadata are;
\* it is one of 0, 25, 50, 75, 100, and it is 100 exactly when the four
\* artifact files exist.
C1_Completeness ==
    (pc = "returned" /\ lang_data # None) =>
        /\ FlagsMatchFiles(lang_data, lang_folder)
        /\ lang_data.completeness =
               25 * BoolSum(<<lang_data.has_phonology, lang_data.has_grammar,
                              lang_data.has_lexicon, lang_data.has_translations>>)
        /\ lang_data.completeness \in {0, 25, 50, 75, 100}
        /\ (lang_data.completeness = 100) <=> (ArtifactCount(lang_folder) = 4)

C1_Witness ==
    /\ pc = "returned"
    /\ lang_data # None
    /\ lang_data.completeness = 75
    /\ lang_data.has_html
    /\ ~lang_data.has_lexicon
    /\ lang_folder.metadata.kind = "object"

\* C2: whatever the presence, readability and content of the grammar and
\* phonology files, the features list has between 1 and 6 entries, and when no
\* keyword was detected it is the fixed 3-element placeholder list.
C2_FeatureCount ==
    (pc = "extracted") =>
        /\ Len(features) >= 1
        /\ Len(features) <= 6
        /\ NoKeywordDetected(lang_folder) =>
               features = <<"Complex Morphology", "Rich Phonology", "Unique Typology">>

C2_Witness ==
    /\ pc = "extracted"
    /\ lang_folder.grammar.kind = "text"
    /\ lang_folder.grammar.text # <<>>
    /\ lang_folder.phonology.kind = "unreadable"
    /\ NoKeywordDetected(lang_folder)
    /\ Len(features) = 3

\* "emitted" for one label of the returned list
Emitted(label) ==
    label \in Range(features)

WordOrderVSO ==
    HasKeyword(lang_folder.grammar, KW_vso)
        \/ HasKeyword(lang_folder.grammar, KW_verb_subject_object)

WordOrderSOV ==
    HasKeyword(lang_folder.grammar, KW_sov)
        \/ HasKeyword(lang_folder.grammar, KW_subject_object_verb)

WordOrderSVO ==
    HasKeyword(lang_folder.grammar, KW_svo)
        \/ HasKeyword(lang_folder.grammar, KW_subject_verb_object)

\* the part of C9 about the three exclusive groups
ExclusiveGroups ==
    /\ Cardinality({"VSO Word Order", "SOV Word Order", "SVO Word Order"}
                       \cap Range(features)) <= 1
    /\ Cardinality({"Active-Stative Alignment", "Ergative-Absolutive",
                    "Nominative-Accusative"} \cap Range(features)) <= 1
    /\ Cardinality({"Agglutinative", "Analytic"} \cap Range(features)) <= 1
    /\ Emitted("VSO Word Order") <=> WordOrderVSO
    /\ Emitted("SOV Word Order") <=> (~WordOrderVSO /\ WordOrderSOV)
    /\ Emitted("SVO Word Order") <=> (~WordOrderVSO /\ ~WordOrderSOV /\ WordOrderSVO)
    /\ Emitted("Active-Stative Alignment") <=>
           HasKeyword(lang_folder.grammar, KW_active_stative)
    /\ Emitted("Ergative-Absolutive") <=>
           (~HasKeyword(lang_folder.grammar, KW_active_stative)
               /\ HasKeyword(lang_folder.grammar, KW_ergative))
    /\ Emitted("Nominative-Accusative") <=>
           (~HasKeyword(lang_folder.grammar, KW_active_stative)
               /\ ~HasKeyword(lang_folder.grammar, KW_ergative)
               /\ HasKeyword(lang_folder.grammar, KW_nominative))
    /\ Emitted("Agglutinative") <=> HasKeyword(lang_folder.grammar, KW_agglutinative)
    /\ Emitted("Analytic") <=>
           (~HasKeyword(lang_folder.grammar, KW_agglutinative)
               /\ HasKeyword(lang_folder.grammar, KW_analytic))

IndependentLabels ==
    /\ Emitted("Vowel Harmony") <=> HasKeyword(lang_folder.grammar, KW_vowel_harmony)
    /\ Emitted("Ejective Consonants") <=> HasKeyword(lang_folder.phonology, KW_ejective)
    /\ Emitted("Prenasalized Stops") <=> HasKeyword(lang_folder.phonology, KW_prenasalized)

\* all four grammar kinds and the two other phonology kinds are detected
SixOthersDetected ==
    /\ WordOrderVSO \/ WordOrderSOV \/ WordOrderSVO
    /\ \E k \in {KW_active_stative, KW_ergative, KW_nominative} :
           HasKeyword(lang_folder.grammar, k)
    /\ HasKeyword(lang_folder.grammar, KW_vowel_harmony)
    /\ \E k \in {KW_agglutinative, KW_analytic} : HasKeyword(lang_folder.grammar, k)
    /\ HasKeyword(lang_folder.phonology, KW_ejective)
    /\ HasKeyword(lang_folder.phonology, KW_prenasalized)

\* C9 as stated: at most one label per exclusive group, chosen by the fixed
\* priority, and the vowel-harmony, ejective, prenasalized and tonal labels
\* each emitted exactly when their own keyword is present in their own file.
C9_Original ==
    (pc = "extracted") =>
        /\ ExclusiveGroups
        /\ IndependentLabels
        /\ Emitted("Tonal System") <=> HasKeyword(lang_folder.phonology, KW_tone)

\* C9 amended: as stated, except that the tonal label is emitted exactly when
\* "tone" is present in the phonology file and the six other kinds of label
\* are not all detected; with all seven the cut to six entries drops it.
C9_Amended ==
    (pc = "extracted") =>
        /\ ExclusiveGroups
        /\ IndependentLabels
        /\ Emitted("Tonal System") <=>
               (HasKeyword(lang_folder.phonology, KW_tone) /\ ~SixOthersDetected)

C9_Witness ==
    /\ pc = "extracted"
    /\ WordOrderVSO
    /\ WordOrderSVO
    /\ HasKeyword(lang_folder.grammar, KW_agglutinative)
    /\ HasKeyword(lang_folder.phonology, KW_tone)
    /\ features = <<"VSO Word Order", "Agglutinative", "Ejective Consonants", "Tonal System">>

\* the list a fixed order of the seven kinds yields: the labels of the kinds
\* detected, the placeholder list when there is none, cut to six
ListOf(detected) ==
    LET listed == IF detected = <<>>
                  THEN <<"Complex Morphology", "Rich Phonology", "Unique Typology">>
                  ELSE detected
    IN  SubSeq(listed, 1, Min(6, Len(listed)))

GrammarText ==
    IF lang_folder.grammar.kind = "text" THEN Lower(lang_folder.grammar.text) ELSE <<>>

PhonologyText ==
    IF lang_folder.phonology.kind = "text" THEN Lower(lang_folder.phonology.text) ELSE <<>>

\* C10 as stated: the features list is the detected labels in the order
\* word order, alignment, morphological type, vowel harmony, ejective,
\* prenasalized, tonal, cut to the first 6.
C10_Original ==
    (pc = "extracted") =>
        features = ListOf(WordOrderLabel(GrammarText) \o AlignmentLabel(GrammarText)
                              \o MorphologyLabel(GrammarText) \o HarmonyLabel(GrammarText)
                              \o PhonologyLabels(PhonologyText))

\* C10 amended: the order is word order, alignment, vowel harmony,
\* morphological type, ejective, prenasalized, tonal (vowel harmony comes
\* before the morphological type); the list is cut to the first 6, so with
\* all seven kinds detected only the tonal label is dropped.
C10_Amended ==
    (pc = "extracted") =>
        /\ features = ListOf(WordOrderLabel(GrammarText) \o AlignmentLabel(GrammarText)
                                 \o HarmonyLabel(GrammarText) \o MorphologyLabel(GrammarText)
                                 \o PhonologyLabels(PhonologyText))
        /\ (SixOthersDetected /\ HasKeyword(lang_folder.phonology, KW_tone)) =>
               /\ Len(features) = 6
               /\ ~Emitted("Tonal System")
               /\ features[6] = "Prenasalized Stops"

C10_Witness ==
    /\ pc = "extracted"
    /\ HasKeyword(lang_folder.phonology, KW_tone)
    /\ features = <<"SVO Word Order", "Ergative-Absolutive", "Vowel Harmony",
                    "Agglutinative", "Ejective Consonants", "Prenasalized Stops">>

MetadataUnusable(folder) ==
    folder.metadata.kind \in {"malformed", "non_object"}

\* C4 as stated: with metadata.json absent, or not parseable as a JSON object,
\* process_language still produces a record, with the fallback created_at and
\* the flags and completeness of the directory.
C4_Original ==
    (pc = "returned"
        /\ (lang_folder.metadata.kind = "absent" \/ MetadataUnusable(lang_folder))) =>
        /\ lang_data # None
        /\ lang_data.created_at = DefaultCreatedAt
        /\ FlagsMatchFiles(lang_data, lang_folder)
        /\ lang_data.completeness = 25 * ArtifactCount(lang_folder)

\* C4 amended: with metadata.json absent, process_language produces a record
\* with created_at "2025-08-06 12:00:00" and the flags, features and
\* completeness of the directory; with a metadata.json that is present but
\* not parseable as a JSON object, it produces no record.
C4_Amended ==
    (pc = "returned") =>
        /\ lang_folder.metadata.kind = "absent" =>
               /\ lang_data # None
               /\ lang_data.id = lang_folder.name
               /\ lang_data.created_at = DefaultCreatedAt
               /\ FlagsMatchFiles(lang_data, lang_folder)
               /\ lang_data.completeness = 25 * ArtifactCount(lang_folder)
               /\ Len(lang_data.features) \in 1..6
               /\ NoKeywordDetected(lang_folder) =>
                      lang_data.features =
                          <<"Complex Morphology", "Rich Phonology", "Unique Typology">>
        /\ MetadataUnusable(lang_folder) => lang_data = None

C4_Witness ==
    /\ pc = "returned"
    /\ lang_folder.metadata.kind = "malformed"
    /\ ArtifactCount(lang_folder) = 4
    /\ lang_data = None

\* the entries of one root, in enumeration order
EntriesOf(root) ==
    SelectSeq(scanned, LAMBDA s : s.root = root)

\* building the record of this entry raises inside process_language
BuildFails(s) ==
    /\ s.path.is_dir
    /\ Len(s.path.name) = 8
    /\ s.path.metadata.kind \in {"unreadable", "malformed", "non_object"}

BuildSucceeds(s) ==
    /\ s.path.is_dir
    /\ Len(s.path.name) = 8
    /\ s.path.metadata.kind \in {"absent", "object"}

\* the records of the entries of a listing, one per entry, in its order
RecordsOf(entries) ==
    [i \in 1..Len(entries) |-> process_language(entries[i].path)]

\* the records in discovery order: first root, then second root
Discovered ==
    RecordsOf(SelectSeq(EntriesOf("output/languages/languages"), BuildSucceeds))
        \o RecordsOf(SelectSeq(EntriesOf("languages/languages"), BuildSucceeds))

CreatedAtOf(list) ==
    {list[i].created_at : i \in 1..Len(list)}

WithCreatedAt(list, ts) ==
    SelectSeq(list, LAMBDA rec : rec.created_at = ts)

\* C3: in the document main writes, languages is ordered by created_at
\* descending under string comparison, and records with equal created_at keep
\* the order in which scan_languages discovered them.
C3_SortedStable ==
    (pc = "done") =>
        /\ \A i, j \in 1..Len(output_file.languages) :
               i < j => ~StrLess(output_file.languages[i].created_at,
                                 output_file.languages[j].created_at)
        /\ \A ts \in CreatedAtOf(Discovered) \cup CreatedAtOf(output_file.languages) :
               WithCreatedAt(output_file.languages, ts) = WithCreatedAt(Discovered, ts)

C3_Witness ==
    /\ pc = "done"
    /\ Len(output_file.languages) = 3
    /\ Discovered[1].created_at = DefaultCreatedAt
    /\ Discovered[2].created_at = DefaultCreatedAt
    /\ Discovered[1] # Discovered[2]
    /\ Discovered[3].created_at = TS_nine
    /\ output_file.languages = <<Discovered[3], Discovered[1], Discovered[2]>>

\* the listing with the entries whose build fails taken out
WithoutFailures ==
    SelectSeq(scanned, LAMBDA s : ~BuildFails(s))

\* what the scan yields on a listing in which every build succeeds
ScanOf(entries) ==
    RecordsOf(SelectSeq(entries, BuildSucceeds))

\* the part of C5 about the list: a directory whose record fails to build
\* contributes no record, the scan goes on, and every other record is what it
\* is without the failing directory
FailureIsolated ==
    /\ pc \in {"check_root", "iterdir", "sort"} => languages = ScanOf(WithoutFailures)
    /\ pc \in {"mkdir", "done", "crashed"} =>
           output_data.languages = SortDesc(ScanOf(WithoutFailures))
    /\ pc = "done" => output_file.languages = SortDesc(ScanOf(WithoutFailures))
    /\ \A i \in 1..Len(languages) : languages[i] # None

\* C5 as stated: a failure while building the record of one directory is
\* never fatal to the run: the directory contributes no record, the scan goes
\* on, the run completes through sorting and writing the output, and every
\* other record is the same as if the failing directory were not there.
C5_Original ==
    /\ FailureIsolated
    /\ (pc \in {"done", "crashed"} /\ \E i \in 1..Len(scanned) : BuildFails(scanned[i])) =>
           /\ pc = "done"
           /\ output_file = build_output(SortDesc(ScanOf(WithoutFailures)))

\* C6 as stated: main ends with web/data/languages.json written, whether or
\* not web/ exists beforehand; with no matching subdirectory the file holds
\* languages = [] and total_count = 0; total_count is the length of languages.
C6_Original ==
    (pc \in {"done", "crashed"}) =>
        /\ pc = "done"
        /\ web_dir = "web_data"
        /\ output_file # None
        /\ output_file.total_count = Len(output_file.languages)
        /\ (\A i \in 1..Len(scanned) : ~scanned[i].processed) =>
               (output_file.languages = <<>> /\ output_file.total_count = 0)

\* C7: a child whose name is not exactly 8 characters long, or that is not a
\* directory, never yields a record; every child directory with an
\* 8-character name is handed to process_language, whatever its characters.
C7_OnlyLanguageDirs ==
    /\ \A i \in 1..Len(scanned) :
           scanned[i].processed <=>
               (scanned[i].path.is_dir /\ Len(scanned[i].path.name) = 8)
    /\ \A i \in 1..Len(languages) :
           /\ Len(languages[i].id) = 8
           /\ \E k \in 1..Len(scanned) :
                  /\ scanned[k].path.name = languages[i].id
                  /\ scanned[k].path.is_dir
    /\ Len(languages) <= Cardinality({k \in 1..Len(scanned) :
                             scanned[k].path.is_dir /\ Len(scanned[k].path.name) = 8})
    /\ pc = "done" => output_file.languages = languages

C7_Witness ==
    /\ pc = "done"
    /\ Len(scanned) = 3
    /\ scanned[1].path.is_dir /\ Len(scanned[1].path.name) = 9
    /\ scanned[1].path.lexicon
    /\ ~scanned[2].path.is_dir /\ Len(scanned[2].path.name) = 8
    /\ scanned[3].path.name = "Zz_-.9 !"
    /\ output_file.total_count = 1
    /\ output_file.languages[1].id = "Zz_-.9 !"

\* C8: scan_languages returns all records of output/languages/languages
\* before all records of languages/languages, without deduplication: an
\* identifier under both roots yields two records, and total_count counts both.
C8_RootsConcatenated ==
    /\ pc = "sort" =>
           languages = ScanOf(EntriesOf("output/languages/languages"))
                           \o ScanOf(EntriesOf("languages/languages"))
    /\ pc = "done" =>
           output_file.total_count =
               Cardinality({k \in 1..Len(scanned) : BuildSucceeds(scanned[k])})

C8_Witness ==
    /\ pc = "done"
    /\ Len(scanned) = 2
    /\ scanned[1].root = "output/languages/languages"
    /\ scanned[2].root = "languages/languages"
    /\ scanned[1].path.name = scanned[2].path.name
    /\ scanned[1].path.metadata # scanned[2].path.metadata
    /\ output_file.total_count = 2
    /\ output_file.languages[1].id = output_file.languages[2].id
====
